---- MODULE Spec2Model ----
(***************************************************************************)
(* Model of the backend of the social poster (src/unnamed/part_000): the   *)
(* Express server with its three generation endpoints, the Redis cache     *)
(* middleware in front of them, the error handler behind them, and the     *)
(* free-text poll parser.  Texts are sequences of one-character strings,   *)
(* request bodies are ordered sequences of <<field, value>> pairs (the     *)
(* order JSON.parse and JSON.stringify keep).  The Polls component          *)
(* (src/src/components/Polls.tsx), the caller of the poll and image        *)
(* endpoints, is modelled beside the server, with a specification of its   *)
(* own.                                                                    *)
(***************************************************************************)
EXTENDS Integers, Sequences, FiniteSets, TLC

VARIABLES
    redisOn,    \* process.env.REDIS_URL is set: `redis` is a client, not null
    apiKey,     \* process.env.OPENAI_API_KEY is set
    cache,      \* the Redis keyspace: key -> [value, ttl, age], ttl the seconds left to
                \* live and age the seconds since the write; an expired key stays, dead
    pc,         \* per request slot: where the request's handler chain stands
    ep,         \* per slot: the endpoint the request was posted to
    body,       \* per slot: req.body
    lookup,     \* per slot: what checkCache's lookup did for this request: "off" (no
                \* Redis client), "pending", "hit", "miss", or "expired" (a miss on a
                \* key that has expired)
    validated,  \* per slot: the handler's input validation has run
    up,         \* per slot: the upstream model was invoked for this request
    completion, \* per slot: what the upstream call came back with
    result,     \* per slot: the handler's `result` while redis.setex is awaited
    resp,       \* per slot: the JSON body sent to the caller
    closed,     \* per slot: the client has closed the connection before the response
    prompt,     \* per slot: the prompt the handler sent to the upstream model
    topic,          \* Polls component: the text of the topic field
    isLoading,      \* Polls component: the isLoading state
    generatedPoll,  \* Polls component: the generatedPoll state, NullPoll for null
    calls,          \* Polls component: the generatePoll invocations that have not
                    \* returned, each with the await it is suspended at
    alerted         \* Polls component: the message of the last alert()

vars == <<redisOn, apiKey, cache, pc, ep, body, lookup, validated, up,
          completion, result, resp, closed, prompt,
          topic, isLoading, generatedPoll, calls, alerted>>

----------------------------------------------------------------------------
(* Bounds of the model. *)

\* the requests of a run, each in a slot of its own, in the order they arrive
MaxRequests == 2

\* the lines of an upstream answer
MaxLines == 6

Slots == 1..MaxRequests

----------------------------------------------------------------------------
(* JavaScript strings and the string methods the poll parser uses. *)

Undefined == "undefined"

NL == "\n"

Digits == {"0", "1", "2", "3", "4", "5", "6", "7", "8", "9"}

\* \s of a JavaScript regular expression, and what String.prototype.trim strips
IsSpace(c) == c \in {" ", NL}

\* the positions of s that hold no white space
Inked(s) == {k \in 1..Len(s) : ~IsSpace(s[k])}

SetMin(S) == CHOOSE x \in S : \A y \in S : x <= y

SetMax(S) == CHOOSE x \in S : \A y \in S : x >= y

\* String.prototype.trimStart
TrimStart(s) ==
    IF Inked(s) = {} THEN <<>> ELSE SubSeq(s, SetMin(Inked(s)), Len(s))

\* String.prototype.trim
Trim(s) ==
    IF Inked(s) = {} THEN <<>> ELSE SubSeq(s, SetMin(Inked(s)), SetMax(Inked(s)))

\* String.prototype.split('\n'): the pieces between newlines; "" gives [""]
RECURSIVE SplitLines(_)
SplitLines(s) ==
    LET breaks == {k \in 1..Len(s) : s[k] = NL}
    IN IF breaks = {} THEN <<s>>
       ELSE <<SubSeq(s, 1, SetMin(breaks) - 1)>>
            \o SplitLines(SubSeq(s, SetMin(breaks) + 1, Len(s)))

\* Array.prototype.filter(line => line.trim()): keeps the lines whose trim is truthy
NonBlank(lines) == SelectSeq(lines, LAMBDA l : Trim(l) # <<>>)

RECURSIVE DropDigits(_)
DropDigits(s) ==
    IF s # <<>> /\ Head(s) \in Digits THEN DropDigits(Tail(s)) ELSE s

\* line.replace(/^[0-9]+\.\s*/, ''): one or more digits, a dot and any
\* whitespace after it are removed at the start of the line, if they are there
StripMarker(line) ==
    LET rest == DropDigits(line)
    IN IF line # <<>> /\ Head(line) \in Digits /\ rest # <<>> /\ Head(rest) = "."
       THEN TrimStart(Tail(rest))
       ELSE line

\* Array.prototype.slice(from, to), zero-based, end exclusive, clamped
Slice(a, from, to) ==
    LET hi == IF to < Len(a) THEN to ELSE Len(a)
    IN IF from >= hi THEN <<>> ELSE SubSeq(a, from + 1, hi)

\* lines.slice(1, 4) as it would be if it took all four options of the format
SliceOptionsWide(lines) == Slice(lines, 1, 5)

\* lines.slice(1, 4)
SliceOptions(lines) == Slice(lines, 1, 4)

MapStrip(lines) == [k \in 1..Len(lines) |-> Trim(StripMarker(lines[k]))]

\* ParsePoll as it would be if it insisted on a question and three options
ParsePollNeedsFour(raw) ==
    LET content == Trim(raw)
        lines == NonBlank(SplitLines(content))
    IN IF Len(lines) < 4
       THEN [threw |-> TRUE, content |-> content, question |-> <<>>, options |-> <<>>]
       ELSE [threw |-> FALSE,
             content |-> content,
             question |-> Trim(StripMarker(lines[1])),
             options |-> MapStrip(SliceOptions(lines))]

\* The poll handler's parsing.  `threw` stands for the TypeError of
\* lines[0].replace when lines is empty (lines[0] is undefined).
ParsePoll(raw) ==
    LET content == Trim(raw)
        lines == NonBlank(SplitLines(content))
    IN IF lines = <<>>
       THEN [threw |-> TRUE, content |-> content, question |-> <<>>, options |-> <<>>]
       ELSE [threw |-> FALSE,
             content |-> content,
             question |-> Trim(StripMarker(lines[1])),
             options |-> MapStrip(SliceOptions(lines))]

----------------------------------------------------------------------------
(* Requests: bodies, their JSON serialization, the cache keys. *)

Endpoints == {"post", "image", "poll"}

\* The request bodies the model posts, to any endpoint: valid and invalid ones
\* for each endpoint, and one body in its two key orders.
Bodies ==
    { << <<"postType", "post">>, <<"topic", "a">> >>,
      << <<"topic", "a">>, <<"postType", "post">> >>,
      << <<"postType", "post">> >>,
      << <<"postType", "post">>, <<"topic", "">> >>,
      << <<"topic", "a">> >>,
      << <<"postType", "story">>, <<"topic", "a">> >>,
      << <<"prompt", "p">> >> }

\* req.body.<f>: undefined when the body has no such member
Get(b, f) ==
    IF \E k \in 1..Len(b) : b[k][1] = f
    THEN b[CHOOSE k \in 1..Len(b) : b[k][1] = f][2]
    ELSE Undefined

\* JavaScript truthiness of a string-or-undefined value
Truthy(v) == v \notin {Undefined, ""}

RECURSIVE Members(_)
Members(b) ==
    IF b = <<>> THEN <<>>
    ELSE <<Head(b)[1], ":", Head(b)[2]>>
         \o (IF Tail(b) = <<>> THEN <<>> ELSE <<",">> \o Members(Tail(b)))

\* JSON.stringify(req.body): the members in the order the body holds them
Stringify(b) == <<"{">> \o Members(b) \o <<"}">>

\* checkCache's key, whatever the endpoint: `content:${JSON.stringify(req.body)}`
LookupKey(e, b) == <<"content:">> \o Stringify(b)

\* the key each handler writes its result under
WriteKey(e, b) ==
    CASE e = "post" -> <<"content:">> \o Stringify(b)
      [] e = "image" -> <<"image:", Get(b, "prompt")>>
      [] e = "poll" -> <<"poll:">> \o Stringify(b)

\* redis.setex(cacheKey, 3600, ...): the expiry in seconds
TTL == 3600

\* A key Redis has expired: it is dead from its expiry on (Redis removes it
\* lazily), and no command sees it.
Dead == [value |-> [success |-> FALSE, error |-> ""], ttl |-> 0, age |-> TTL]

\* redis.get as it would be if the entries never expired
RedisHasStale(key) == key \in DOMAIN cache

\* redis.get(key): the stored string, or null when the key was never set or
\* has expired
RedisHas(key) == key \in DOMAIN cache /\ cache[key].ttl > 0

\* redis.setex as it would be if a write over an existing key kept the members
\* of the old value that the new one does not have
RedisSetexMerges(key, value) ==
    [k \in DOMAIN cache \cup {key} |->
        IF k = key
        THEN [value |-> IF key \in DOMAIN cache
                        THEN [f \in DOMAIN cache[key].value \cup DOMAIN value |->
                                 IF f \in DOMAIN value THEN value[f] ELSE cache[key].value[f]]
                        ELSE value,
              ttl |-> TTL, age |-> 0]
        ELSE cache[k]]

\* redis.setex(key, TTL, value): whole-entry replacement with a fresh time to live
RedisSetex(key, value) ==
    [k \in DOMAIN cache \cup {key} |->
        IF k = key THEN [value |-> value, ttl |-> TTL, age |-> 0] ELSE cache[k]]

\* The keyspace d seconds later: every key has d seconds less to live, and a
\* key whose time has run out is dead
Aged(d) ==
    [k \in DOMAIN cache |->
        IF cache[k].ttl > d
        THEN [value |-> cache[k].value, ttl |-> cache[k].ttl - d, age |-> cache[k].age + d]
        ELSE Dead]

\* JSON.stringify of a result (res.json, and the value given to setex): a member
\* whose value is undefined is left out
JsonStringify(r) ==
    IF "usage" \in DOMAIN r /\ r.usage = Undefined
    THEN [f \in DOMAIN r \ {"usage"} |-> r[f]]
    ELSE r

\* JSON.parse of a stored value
JsonParse(v) == v

----------------------------------------------------------------------------
(* Validation and errors. *)

\* new Error(message): no status property
PlainError(msg) == [zod |-> FALSE, status |-> 0, message |-> msg, issues |-> <<>>]

\* an error of the OpenAI client carrying an HTTP status
StatusError(st, msg) == [zod |-> FALSE, status |-> st, message |-> msg, issues |-> <<>>]

ZodError(issues) == [zod |-> TRUE, status |-> 0, message |-> "zod", issues |-> issues]

\* contentSchema as it would be with postType: z.string().optional()
SchemaIssuesAnyKind(b) ==
    IF Get(b, "topic") = Undefined THEN <<[path |-> "topic", message |-> "Required"]>>
    ELSE IF Get(b, "topic") = "" THEN <<[path |-> "topic", message |-> "Topic is required"]>>
    ELSE <<>>

\* contentSchema.parse: every violated field, in the schema's order
SchemaIssues(b) ==
    (IF Get(b, "postType") \in {"post", "thread", "poll"} THEN <<>>
     ELSE <<[path |-> "postType", message |-> "Invalid enum value"]>>)
    \o
    (IF Get(b, "topic") = Undefined THEN <<[path |-> "topic", message |-> "Required"]>>
     ELSE IF Get(b, "topic") = "" THEN <<[path |-> "topic", message |-> "Topic is required"]>>
     ELSE <<>>)

\* errorHandler as it would be if it sent the message alone, without the flag
ErrorHandlerNoFlag(err) ==
    IF err.zod
    THEN [error |-> "Invalid input", details |-> err.issues]
    ELSE LET statusCode == IF err.status # 0 THEN err.status ELSE 500
         IN [error |-> IF statusCode = 500 THEN "Internal server error" ELSE err.message]

\* errorHandler: the JSON body of the failure response
ErrorHandler(err) ==
    IF err.zod
    THEN [success |-> FALSE, error |-> "Invalid input", details |-> err.issues]
    ELSE LET statusCode == IF err.status # 0 THEN err.status ELSE 500
         IN [success |-> FALSE,
             error |-> IF statusCode = 500 THEN "Internal server error" ELSE err.message]

NoError == PlainError("")

\* the keys of promptTemplates
TemplateKinds == {"post", "thread", "poll"}

\* The synchronous head of each handler, up to its upstream call: the error it
\* throws, or NoError when it goes on to call the upstream model.
InputError(e, b) ==
    CASE e = "post" ->
            IF SchemaIssues(b) # <<>> THEN ZodError(SchemaIssues(b))
            ELSE IF ~apiKey THEN PlainError("OpenAI API key is not configured")
            ELSE IF Get(b, "postType") \notin TemplateKinds
                 THEN PlainError("Invalid content type")
            ELSE NoError
      [] e = "image" ->
            IF ~Truthy(Get(b, "prompt")) THEN PlainError("Prompt is required")
            ELSE IF ~apiKey THEN PlainError("OpenAI API key is not configured")
            ELSE NoError
      [] e = "poll" ->
            IF ~Truthy(Get(b, "topic")) THEN PlainError("Poll topic is required")
            ELSE IF ~apiKey THEN PlainError("OpenAI API key is not configured")
            ELSE NoError

----------------------------------------------------------------------------
(* Prompts.  A prompt is its template and the values interpolated into it; an
   undefined value is interpolated as the text "undefined". *)

\* the .default(...) values of contentSchema
Defaults ==
    [audience |-> "general audience", style |-> "neutral and engaging", guidelines |-> "none"]

\* z.string().optional().default(d): the default stands in for an absent member
WithDefault(b, f) == IF Get(b, f) = Undefined THEN Defaults[f] ELSE Get(b, f)

\* generatePrompt(validatedInput.postType, validatedInput): the template of the
\* kind over the validated input, defaults applied; the bodies of the model
\* carry no preferences, whose part of the template is then empty
GeneratePrompt(type, b) ==
    [template |-> type,
     topic |-> Get(b, "topic"),
     audience |-> WithDefault(b, "audience"),
     style |-> WithDefault(b, "style"),
     guidelines |-> WithDefault(b, "guidelines")]

\* the poll endpoint's own template literal over the members of req.body
PollPrompt(b) ==
    [template |-> "generate-poll",
     topic |-> Get(b, "topic"),
     audience |-> Get(b, "audience"),
     style |-> Get(b, "style"),
     guidelines |-> Get(b, "guidelines")]

\* the prompt each handler sends upstream
Prompt(e, b) ==
    CASE e = "post" -> GeneratePrompt(Get(b, "postType"), b)
      [] e = "image" -> [template |-> "image", prompt |-> Get(b, "prompt")]
      [] e = "poll" -> PollPrompt(b)

NoPrompt == [template |-> "none"]

----------------------------------------------------------------------------
(* The upstream model: what a call to it can come back with. *)

RECURSIVE JoinLines(_)
JoinLines(lines) ==
    IF lines = <<>> THEN <<>>
    ELSE IF Len(lines) = 1 THEN lines[1]
    ELSE lines[1] \o <<NL>> \o JoinLines(Tail(lines))

DigitOf == <<"1", "2", "3", "4", "5", "6", "7", "8", "9">>

\* The k-th line of an answer as the model writes it: numbered "<k>. " as the
\* prompt asks, numbered with two digits, not numbered, or numbered after an
\* indent.
RenderLine(k, l) ==
    CASE l.kind = "num" -> <<DigitOf[k], ".", " ">> \o l.text
      [] l.kind = "long" -> <<"1", DigitOf[k], ".", " ">> \o l.text
      [] l.kind = "none" -> l.text
      [] l.kind = "indent" -> <<" ", DigitOf[k], ".", " ">> \o l.text

\* message.content of an answer made of these lines
Render(ls) == JoinLines([k \in 1..Len(ls) |-> RenderLine(k, ls[k])])

Num(text) == [kind |-> "num", text |-> text]

TextReply(ls, usage) == [kind |-> "text", content |-> Render(ls), lines |-> ls, usage |-> usage]

\* a poll answer in the format the prompt asks for: six numbered lines
SixLines ==
    << Num(<<"a">>), Num(<<"b">>), Num(<<"a", "b">>), Num(<<"b", "a">>),
       Num(<<"b", "b">>), Num(<<"a", "a">>) >>

TwoLines == << Num(<<"a">>), Num(<<"b">>) >>

\* an answer that is only white space
BlankText == << [kind |-> "none", text |-> <<" ">>] >>

\* openai.chat.completions.create: a completion with a text (and usage), a
\* completion with no choices, a timeout, an error response with a status
ChatReplies ==
    { TextReply(SixLines, "u"),
      TextReply(TwoLines, Undefined),
      TextReply(BlankText, "u"),
      [kind |-> "nochoices"],
      [kind |-> "timeout"],
      [kind |-> "status"] }

\* openai.images.generate: a URL, a response without one, a timeout, an error status
ImageReplies ==
    { [kind |-> "url", url |-> "u1"],
      [kind |-> "url", url |-> "u2"],
      [kind |-> "nourl"],
      [kind |-> "timeout"],
      [kind |-> "status"] }

Replies(e) == IF e = "image" THEN ImageReplies ELSE ChatReplies

\* what the awaited upstream call throws, NoError when it resolves
UpstreamError(r) ==
    CASE r.kind = "timeout" -> PlainError("Request timed out.")
      [] r.kind = "status" -> StatusError(429, "Rate limit exceeded")
      [] OTHER -> NoError

\* The rest of each handler once the upstream call has settled: the error it
\* throws (NoError when none) and the `result` object it builds.
Outcome(e, r) ==
    IF UpstreamError(r) # NoError THEN [err |-> UpstreamError(r), result |-> [success |-> FALSE]]
    ELSE CASE e = "post" ->
                IF r.kind = "nochoices"
                THEN [err |-> PlainError("TypeError"), result |-> [success |-> FALSE]]
                ELSE [err |-> NoError,
                      result |-> [success |-> TRUE, content |-> r.content, usage |-> r.usage]]
           [] e = "image" ->
                IF r.kind = "nourl"
                THEN [err |-> PlainError("Invalid response from image generation service"),
                      result |-> [success |-> FALSE]]
                ELSE [err |-> NoError, result |-> [success |-> TRUE, imageUrl |-> r.url]]
           [] e = "poll" ->
                IF r.kind = "nochoices"
                THEN [err |-> PlainError("TypeError"), result |-> [success |-> FALSE]]
                ELSE LET parsed == ParsePoll(r.content)
                     IN IF parsed.threw
                        THEN [err |-> PlainError("TypeError"), result |-> [success |-> FALSE]]
                        ELSE [err |-> NoError,
                              result |-> [success |-> TRUE,
                                          content |-> parsed.content,
                                          question |-> parsed.question,
                                          options |-> parsed.options]]

----------------------------------------------------------------------------
(* The server. *)

\* The state of the Polls component (src/src/components/Polls.tsx), which is
\* the caller of the poll and image endpoints.
ui == <<topic, isLoading, generatedPoll, calls, alerted>>

\* useState<...|null>(null)
NullPoll == [shown |-> FALSE]

\* the component as it mounts: the useState initial values, nothing in flight
UiInit ==
    /\ topic = <<>>
    /\ isLoading = FALSE
    /\ generatedPoll = NullPoll
    /\ calls = <<>>
    /\ alerted = "none"

NoResp == [success |-> FALSE, error |-> ""]

NoReply == [kind |-> "none"]

Init ==
    /\ redisOn \in BOOLEAN
    /\ apiKey \in BOOLEAN
    /\ cache = <<>>
    /\ pc = [i \in Slots |-> "idle"]
    /\ ep = [i \in Slots |-> "post"]
    /\ body = [i \in Slots |-> <<>>]
    /\ lookup = [i \in Slots |-> "none"]
    /\ validated = [i \in Slots |-> FALSE]
    /\ up = [i \in Slots |-> FALSE]
    /\ completion = [i \in Slots |-> NoReply]
    /\ result = [i \in Slots |-> NoResp]
    /\ resp = [i \in Slots |-> NoResp]
    /\ closed = [i \in Slots |-> FALSE]
    /\ prompt = [i \in Slots |-> NoPrompt]
    /\ UiInit

\* next() out of checkCache: the handler validates its input and runs up to
\* its first await, the upstream call, or throws before it.
Enter(i, e, b) ==
    /\ validated' = [validated EXCEPT ![i] = TRUE]
    /\ IF InputError(e, b) # NoError
       THEN /\ pc' = [pc EXCEPT ![i] = "done"]
            /\ resp' = [resp EXCEPT ![i] = ErrorHandler(InputError(e, b))]
            /\ up' = [up EXCEPT ![i] = FALSE]
            /\ prompt' = prompt
       ELSE /\ pc' = [pc EXCEPT ![i] = "upstream"]
            /\ resp' = [resp EXCEPT ![i] = NoResp]
            /\ up' = [up EXCEPT ![i] = TRUE]
            /\ prompt' = [prompt EXCEPT ![i] = Prompt(e, b)]

\* A request arrives (the i-th of the run): checkCache runs first, and awaits
\* redis.get when there is a Redis client; without one it calls next() at once.
Receive(i, e, b) ==
    /\ pc[i] = "idle"
    /\ \A j \in Slots : j < i => pc[j] # "idle"
    /\ ep' = [ep EXCEPT ![i] = e]
    /\ body' = [body EXCEPT ![i] = b]
    /\ completion' = [completion EXCEPT ![i] = NoReply]
    /\ IF redisOn
       THEN /\ pc' = [pc EXCEPT ![i] = "get"]
            /\ lookup' = [lookup EXCEPT ![i] = "pending"]
            /\ validated' = [validated EXCEPT ![i] = FALSE]
            /\ up' = [up EXCEPT ![i] = FALSE]
            /\ resp' = [resp EXCEPT ![i] = NoResp]
            /\ prompt' = prompt
       ELSE /\ lookup' = [lookup EXCEPT ![i] = "off"]
            /\ Enter(i, e, b)
    /\ UNCHANGED <<ui, closed, redisOn, apiKey, cache, result>>

\* redis.get resolves: a hit answers the request, a miss goes on to the handler
CacheGet(i) ==
    /\ pc[i] = "get"
    /\ IF RedisHas(LookupKey(ep[i], body[i]))
       THEN /\ pc' = [pc EXCEPT ![i] = "done"]
            /\ lookup' = [lookup EXCEPT ![i] = "hit"]
            /\ resp' = [resp EXCEPT ![i] =
                          JsonStringify(JsonParse(cache[LookupKey(ep[i], body[i])].value))]
            /\ UNCHANGED <<validated, up, prompt>>
       ELSE /\ lookup' = [lookup EXCEPT ![i] =
                            IF LookupKey(ep[i], body[i]) \in DOMAIN cache
                            THEN "expired" ELSE "miss"]
            /\ Enter(i, ep[i], body[i])
    /\ UNCHANGED <<ui, closed, completion, redisOn, apiKey, cache, ep, body, result>>

\* redis.get rejects: the catch logs it and the handler runs
CacheGetError(i) ==
    /\ pc[i] = "get"
    /\ lookup' = [lookup EXCEPT ![i] = "miss"]
    /\ Enter(i, ep[i], body[i])
    /\ UNCHANGED <<ui, closed, completion, redisOn, apiKey, cache, ep, body, result>>

\* UpstreamReply as it would be if the handler stored what it got before
\* looking at it: a failed call leaves an entry too
UpstreamReplyStoresFirst(i, r) ==
    /\ pc[i] = "upstream"
    /\ completion' = [completion EXCEPT ![i] = r]
    /\ LET out == Outcome(ep[i], r)
       IN IF out.err # NoError
          THEN /\ pc' = [pc EXCEPT ![i] = "done"]
               /\ resp' = [resp EXCEPT ![i] = ErrorHandler(out.err)]
               /\ result' = result
               /\ cache' = IF redisOn
                           THEN RedisSetex(WriteKey(ep[i], body[i]), out.result)
                           ELSE cache
          ELSE IF redisOn
          THEN /\ pc' = [pc EXCEPT ![i] = "setex"]
               /\ result' = [result EXCEPT ![i] = out.result]
               /\ resp' = resp
               /\ cache' = cache
          ELSE /\ pc' = [pc EXCEPT ![i] = "done"]
               /\ resp' = [resp EXCEPT ![i] = JsonStringify(out.result)]
               /\ result' = result
               /\ cache' = cache
    /\ UNCHANGED <<ui, prompt, closed, redisOn, apiKey, ep, body, lookup, validated, up>>

\* UpstreamReply as it would be without the `if (redis)` around the cache
\* write: with no client, redis.setex is a call on null and throws
UpstreamReplyNeedsRedis(i, r) ==
    /\ pc[i] = "upstream"
    /\ completion' = [completion EXCEPT ![i] = r]
    /\ LET out == Outcome(ep[i], r)
       IN IF out.err # NoError
          THEN /\ pc' = [pc EXCEPT ![i] = "done"]
               /\ resp' = [resp EXCEPT ![i] = ErrorHandler(out.err)]
               /\ result' = result
          ELSE IF redisOn
          THEN /\ pc' = [pc EXCEPT ![i] = "setex"]
               /\ result' = [result EXCEPT ![i] = out.result]
               /\ resp' = resp
          ELSE /\ pc' = [pc EXCEPT ![i] = "done"]
               /\ resp' = [resp EXCEPT ![i] = ErrorHandler(PlainError("TypeError"))]
               /\ result' = result
    /\ UNCHANGED <<ui, prompt, closed, redisOn, apiKey, cache, ep, body, lookup, validated, up>>

\* The upstream call settles with r and the handler runs to its next await
\* (redis.setex) or to its response.
UpstreamReply(i, r) ==
    /\ pc[i] = "upstream"
    /\ completion' = [completion EXCEPT ![i] = r]
    /\ LET out == Outcome(ep[i], r)
       IN IF out.err # NoError
          THEN /\ pc' = [pc EXCEPT ![i] = "done"]
               /\ resp' = [resp EXCEPT ![i] = ErrorHandler(out.err)]
               /\ result' = result
          ELSE IF redisOn
          THEN /\ pc' = [pc EXCEPT ![i] = "setex"]
               /\ result' = [result EXCEPT ![i] = out.result]
               /\ resp' = resp
          ELSE /\ pc' = [pc EXCEPT ![i] = "done"]
               /\ resp' = [resp EXCEPT ![i] = JsonStringify(out.result)]
               /\ result' = result
    /\ UNCHANGED <<ui, prompt, closed, redisOn, apiKey, cache, ep, body, lookup, validated, up>>

\* redis.setex resolves: the entry is stored and the result is sent
SetexOk(i) ==
    /\ pc[i] = "setex"
    /\ cache' = RedisSetex(WriteKey(ep[i], body[i]), JsonStringify(result[i]))
    /\ resp' = [resp EXCEPT ![i] = JsonStringify(result[i])]
    /\ pc' = [pc EXCEPT ![i] = "done"]
    /\ result' = [result EXCEPT ![i] = NoResp]
    /\ UNCHANGED <<ui, prompt, closed, completion, redisOn, apiKey, ep, body, lookup, validated, up>>

\* redis.setex rejects: the handler's catch hands the error to errorHandler
SetexError(i) ==
    /\ pc[i] = "setex"
    /\ resp' = [resp EXCEPT ![i] = ErrorHandler(PlainError("redis"))]
    /\ pc' = [pc EXCEPT ![i] = "done"]
    /\ result' = [result EXCEPT ![i] = NoResp]
    /\ UNCHANGED <<ui, prompt, closed, completion, redisOn, apiKey, cache, ep, body, lookup, validated, up>>

\* The client closes the connection while its request awaits the upstream
\* model.  No handler listens for it (there is no req.on('close') and no abort
\* signal is given to the OpenAI client): the request's chain goes on as it was.
Disconnect(i) ==
    /\ pc[i] = "upstream"
    /\ ~closed[i]
    /\ closed' = [closed EXCEPT ![i] = TRUE]
    /\ UNCHANGED <<ui, prompt, redisOn, apiKey, cache, pc, ep, body, lookup, validated, up,
                   completion, result, resp>>

\* Time passes, by one second or by a second short of the expiry.  The model
\* samples the keys' times to live at a whole TTL, a second less, and a last
\* second: a step that would take a live key off these instants is left out.
TickSteps == {1, TTL - 1}

TtlGrid == {TTL, TTL - 1, 1}

Tick(d) ==
    /\ \E k \in DOMAIN cache : cache[k].ttl > 0
    /\ \A k \in DOMAIN cache : cache[k].ttl > d => (cache[k].ttl - d) \in TtlGrid
    /\ cache' = Aged(d)
    /\ UNCHANGED <<ui, prompt, closed, completion, redisOn, apiKey, pc, ep, body, lookup, validated, up, result, resp>>

Next ==
    \/ \E i \in Slots, e \in Endpoints, b \in Bodies : Receive(i, e, b)
    \/ \E i \in Slots : CacheGet(i)
    \/ \E i \in Slots : CacheGetError(i)
    \/ \E i \in Slots : \E r \in Replies(ep[i]) : UpstreamReply(i, r)
    \/ \E i \in Slots : SetexOk(i)
    \/ \E i \in Slots : SetexError(i)
    \/ \E i \in Slots : Disconnect(i)
    \/ \E d \in TickSteps : Tick(d)

Spec == Init /\ [][Next]_vars

\* The same server with its callers taking turns: a request arrives only when
\* every earlier one has been answered.
ReceiveInTurn(i, e, b) ==
    /\ \A j \in Slots : pc[j] \in {"idle", "done"}
    /\ Receive(i, e, b)

SeqNext ==
    \/ \E i \in Slots, e \in Endpoints, b \in Bodies : ReceiveInTurn(i, e, b)
    \/ \E i \in Slots : CacheGet(i)
    \/ \E i \in Slots : CacheGetError(i)
    \/ \E i \in Slots : \E r \in Replies(ep[i]) : UpstreamReply(i, r)
    \/ \E i \in Slots : SetexOk(i)
    \/ \E i \in Slots : SetexError(i)
    \/ \E i \in Slots : Disconnect(i)
    \/ \E d \in TickSteps : Tick(d)

SeqSpec == Init /\ [][SeqNext]_vars

\* The steps of request i that do not wait for the upstream provider: Redis
\* answers the command the request awaits and the event loop runs what follows.
ServerStep(i) == CacheGet(i) \/ CacheGetError(i) \/ SetexOk(i) \/ SetexError(i)

\* The server with Redis answering every command.  Nothing is assumed of the
\* upstream provider: the handlers await it with no timer of their own (no
\* timeout option, no abort signal, no Promise.race), so their next step after
\* the call is the provider's answer and nothing else.
LiveSpec == Init /\ [][Next]_vars /\ \A i \in Slots : WF_vars(ServerStep(i))

----------------------------------------------------------------------------
(* The poll parser over many answers: a poll request is awaiting the upstream
   model, and the answer is any text of up to MaxLines lines. *)

LineShapes ==
    { Num(<<"a">>),
      [kind |-> "long", text |-> <<"a", "b">>],
      Num(<<"b", " ", "a">>),
      [kind |-> "none", text |-> <<"a", "b">>],
      [kind |-> "indent", text |-> <<"b">>],
      [kind |-> "none", text |-> <<" ">>] }

Answers == UNION { [1..n -> LineShapes] : n \in 0..MaxLines }

PollBody == << <<"topic", "a">> >>

ParserInit ==
    /\ redisOn = TRUE
    /\ apiKey = TRUE
    /\ cache = <<>>
    /\ pc = [i \in Slots |-> IF i = 1 THEN "upstream" ELSE "idle"]
    /\ ep = [i \in Slots |-> IF i = 1 THEN "poll" ELSE "post"]
    /\ body = [i \in Slots |-> IF i = 1 THEN PollBody ELSE <<>>]
    /\ lookup = [i \in Slots |-> IF i = 1 THEN "miss" ELSE "none"]
    /\ validated = [i \in Slots |-> i = 1]
    /\ up = [i \in Slots |-> i = 1]
    /\ completion = [i \in Slots |-> NoReply]
    /\ result = [i \in Slots |-> NoResp]
    /\ resp = [i \in Slots |-> NoResp]
    /\ closed = [i \in Slots |-> FALSE]
    /\ prompt = [i \in Slots |-> IF i = 1 THEN Prompt("poll", PollBody) ELSE NoPrompt]
    /\ UiInit

ParserNext ==
    \/ pc[1] = "upstream" /\ \E ls \in Answers : UpstreamReply(1, TextReply(ls, "u"))
    \/ SetexOk(1)

ParserSpec == ParserInit /\ [][ParserNext]_vars

----------------------------------------------------------------------------
(* The Polls component (src/src/components/Polls.tsx).  A click runs its
   handler to the handler's first await and React renders the new state before
   the next event; each await of generatePoll is a step of its own, taken when
   the awaited promise settles.  The audience, style and guidelines fields only
   feed the request body and are left out. *)

\* the generatePoll invocations suspended at once that the model follows
MaxInFlight == 2

\* what the user types into the topic field: nothing, white space, a topic
Topics == { <<>>, <<" ">>, <<"a">> }

\* the server, fixed, while the component is followed
server == <<redisOn, apiKey, cache, pc, ep, body, lookup, validated, up,
            completion, result, resp, closed, prompt>>

\* a response body that is not JSON: response.json() rejects
NotJson == [parses |-> FALSE]

Json(data) == [parses |-> TRUE, data |-> data]

\* fetch('/api/generate-poll') settles: the network fails, or a response comes
\* with its status and its body: an error response, a body that is not JSON, a
\* 200 that says success false, and two different polls
PollFetches ==
    { [kind |-> "reject"],
      [kind |-> "response", ok |-> FALSE,
       body |-> Json([success |-> FALSE, error |-> "Internal server error"])],
      [kind |-> "response", ok |-> TRUE, body |-> NotJson],
      [kind |-> "response", ok |-> TRUE, body |-> Json([success |-> FALSE, error |-> "e"])],
      [kind |-> "response", ok |-> TRUE,
       body |-> Json([success |-> TRUE, question |-> "q1", options |-> <<"a", "b", "c">>])],
      [kind |-> "response", ok |-> TRUE,
       body |-> Json([success |-> TRUE, question |-> "q2", options |-> <<"a">>])] }

\* fetch('/api/generateImage') settles: the network fails, or a response comes:
\* not JSON (the rate limiter's text), a failure, a success without a URL, a URL
ImageFetches ==
    { [kind |-> "reject"],
      [kind |-> "response", body |-> NotJson],
      [kind |-> "response", body |-> Json([success |-> FALSE, error |-> "Internal server error"])],
      [kind |-> "response", body |-> Json([success |-> TRUE])],
      [kind |-> "response", body |-> Json([success |-> TRUE, imageUrl |-> "u1"])] }

\* the sequence without its k-th element
Without(seq, k) == SubSeq(seq, 1, k - 1) \o SubSeq(seq, k + 1, Len(seq))

\* disabled={isLoading} of the Generate Poll button
GenerateEnabled == ~isLoading

\* the Regenerate button as it would be if it were rendered beside the
\* Generate Poll button, outside the generatedPoll block
RegenerateShownAlways == TRUE

\* {generatedPoll && (...)}: the block that holds the Regenerate and Clear buttons
RegenerateShown == generatedPoll # NullPoll

\* generatePoll, from its call to its first await
generatePoll ==
    IF Trim(topic) = <<>>
    THEN /\ alerted' = "Please provide a topic for the poll"
         /\ UNCHANGED <<topic, isLoading, generatedPoll, calls>>
    ELSE /\ isLoading' = TRUE
         /\ generatedPoll' = NullPoll
         /\ calls' = Append(calls, [at |-> "pollFetch"])
         /\ UNCHANGED <<topic, alerted>>

\* a click on Generate Poll
ClickGenerate ==
    /\ GenerateEnabled
    /\ Len(calls) < MaxInFlight
    /\ generatePoll
    /\ UNCHANGED server

\* regeneratePoll: a click on Regenerate
regeneratePoll ==
    /\ RegenerateShown
    /\ Len(calls) < MaxInFlight
    /\ generatePoll
    /\ UNCHANGED server

\* clearPoll: a click on Clear, which is rendered in the same block
clearPoll ==
    /\ RegenerateShown
    /\ generatedPoll' = NullPoll
    /\ topic' = <<>>
    /\ UNCHANGED <<isLoading, calls, alerted>>
    /\ UNCHANGED server

\* onChange of the topic field
setTopic(t) ==
    /\ t # topic
    /\ topic' = t
    /\ UNCHANGED <<isLoading, generatedPoll, calls, alerted>>
    /\ UNCHANGED server

\* the outer catch and the finally of call k
Fail(k) ==
    /\ alerted' = "Failed to generate poll. Please try again."
    /\ isLoading' = FALSE
    /\ calls' = Without(calls, k)
    /\ UNCHANGED <<topic, generatedPoll>>

\* setGeneratedPoll({...}) and the finally of call k
Show(k, imageUrl) ==
    /\ generatedPoll' = [shown |-> TRUE,
                         question |-> calls[k].data.question,
                         options |-> calls[k].data.options,
                         imageUrl |-> imageUrl]
    /\ isLoading' = FALSE
    /\ calls' = Without(calls, k)
    /\ UNCHANGED <<topic, alerted>>

\* await fetch('/api/generate-poll') settles for call k, and response.ok is checked
PollFetchSettles(k, r) ==
    /\ calls[k].at = "pollFetch"
    /\ IF r.kind = "reject" \/ ~r.ok
       THEN Fail(k)
       ELSE /\ calls' = [calls EXCEPT ![k] = [at |-> "pollJson", body |-> r.body]]
            /\ UNCHANGED <<topic, isLoading, generatedPoll, alerted>>
    /\ UNCHANGED server

\* await response.json() settles for call k, data.success is checked and the
\* image is asked for
PollJsonSettles(k) ==
    /\ calls[k].at = "pollJson"
    /\ IF ~calls[k].body.parses \/ ~calls[k].body.data.success
       THEN Fail(k)
       ELSE /\ calls' = [calls EXCEPT ![k] = [at |-> "imageFetch", data |-> calls[k].body.data]]
            /\ UNCHANGED <<topic, isLoading, generatedPoll, alerted>>
    /\ UNCHANGED server

\* await fetch('/api/generateImage') settles for call k; a rejection is caught
\* by the inner catch
ImageFetchSettles(k, r) ==
    /\ calls[k].at = "imageFetch"
    /\ IF r.kind = "reject"
       THEN Show(k, Undefined)
       ELSE /\ calls' = [calls EXCEPT ![k] =
                           [at |-> "imageJson", data |-> calls[k].data, body |-> r.body]]
            /\ UNCHANGED <<topic, isLoading, generatedPoll, alerted>>
    /\ UNCHANGED server

\* await imageResponse.json() settles for call k
ImageJsonSettles(k) ==
    /\ calls[k].at = "imageJson"
    /\ LET b == calls[k].body
       IN IF b.parses /\ b.data.success /\ "imageUrl" \in DOMAIN b.data
          THEN Show(k, b.data.imageUrl)
          ELSE Show(k, Undefined)
    /\ UNCHANGED server

PollsInit ==
    /\ redisOn = FALSE
    /\ apiKey = TRUE
    /\ cache = <<>>
    /\ pc = [i \in Slots |-> "idle"]
    /\ ep = [i \in Slots |-> "post"]
    /\ body = [i \in Slots |-> <<>>]
    /\ lookup = [i \in Slots |-> "none"]
    /\ validated = [i \in Slots |-> FALSE]
    /\ up = [i \in Slots |-> FALSE]
    /\ completion = [i \in Slots |-> NoReply]
    /\ result = [i \in Slots |-> NoResp]
    /\ resp = [i \in Slots |-> NoResp]
    /\ closed = [i \in Slots |-> FALSE]
    /\ prompt = [i \in Slots |-> NoPrompt]
    /\ UiInit

PollsNext ==
    \/ ClickGenerate
    \/ regeneratePoll
    \/ clearPoll
    \/ \E t \in Topics : setTopic(t)
    \/ \E k \in 1..Len(calls) : \E r \in PollFetches : PollFetchSettles(k, r)
    \/ \E k \in 1..Len(calls) : PollJsonSettles(k)
    \/ \E k \in 1..Len(calls) : \E r \in ImageFetches : ImageFetchSettles(k, r)
    \/ \E k \in 1..Len(calls) : ImageJsonSettles(k)

PollsSpec == PollsInit /\ [][PollsNext]_vars

----------------------------------------------------------------------------
(* Properties of the caching layer. *)

\* redis.get resolves for request i in this step (CacheGet, not its rejection)
Resolves(i) == pc[i] = "get" /\ CacheGet(i)

\* the step answers request i from the cache with the value stored under key:
\* no handler, no upstream call
ServedFrom(i, key) ==
    /\ lookup'[i] = "hit"
    /\ pc'[i] = "done"
    /\ up'[i] = FALSE
    /\ resp'[i] = cache[key].value

\* C1: with a cache backend, once a generate call of any operation has
\* succeeded and stored its result, a second call with the same fields made
\* before the entry expires is answered from the cache: the stored result,
\* unchanged, and no second upstream invocation.
C1_SecondCallIsCacheHit ==
    [][\A i \in Slots :
          (Resolves(i) /\ RedisHas(WriteKey(ep[i], body[i])))
              => ServedFrom(i, WriteKey(ep[i], body[i]))]_vars

\* C8: for image generation the key is the prompt alone, the same for lookup
\* and for write: while the entry a successful image generation stored for
\* prompt p lives, an image request with prompt p is answered with the stored
\* imageUrl and no upstream image call.
C8_ImageServedByPrompt ==
    [][\A i \in Slots :
          (/\ Resolves(i)
           /\ ep[i] = "image"
           /\ RedisHas(<<"image:", Get(body[i], "prompt")>>))
              => (/\ LookupKey(ep[i], body[i]) = <<"image:", Get(body[i], "prompt")>>
                  /\ ServedFrom(i, <<"image:", Get(body[i], "prompt")>>))]_vars

\* two bodies with the same members, in whatever order
SameFields(b1, b2) ==
    /\ Len(b1) = Len(b2)
    /\ {b1[k] : k \in 1..Len(b1)} = {b2[k] : k \in 1..Len(b2)}

\* C9: the cache key does not depend on the order of the body's members: a
\* content request whose members equal those of a request that succeeded and
\* whose entry still lives is a cache hit, whatever order its members come in.
C9_KeyOrderIndependent ==
    [][\A i \in Slots : \A b \in Bodies :
          (/\ Resolves(i)
           /\ ep[i] = "post"
           /\ SameFields(b, body[i])
           /\ RedisHas(WriteKey("post", b)))
              => ServedFrom(i, WriteKey("post", b))]_vars

\* C3: validation comes first: no request has had a cache lookup issued or an
\* upstream call made for it before its input was validated.
C3_ValidationFirst ==
    \A i \in Slots :
        (lookup[i] \in {"pending", "hit", "miss", "expired"} \/ up[i]) => validated[i]

\* C4: a content or poll request with no topic (absent or empty) is answered
\* with the validation failure: success false, error "Invalid input", and
\* details that list topic.
C4_MissingTopicIsInvalidInput ==
    \A i \in Slots :
        (pc[i] = "done" /\ ep[i] \in {"post", "poll"} /\ ~Truthy(Get(body[i], "topic")))
            => /\ resp[i].success = FALSE
               /\ resp[i].error = "Invalid input"
               /\ "details" \in DOMAIN resp[i]
               /\ \E k \in 1..Len(resp[i].details) : resp[i].details[k].path = "topic"

\* C6: the poll parser never raises: whatever text the upstream model answers
\* with, the poll request does not end in a failure.
C6_PollParserNeverRaises ==
    \A i \in Slots :
        (ep[i] = "poll" /\ completion[i].kind = "text" /\ pc[i] = "done")
            => resp[i].success = TRUE

\* the upstream answers that are failures: a timeout, an error status, a
\* payload without what the handler reads
FailKinds == {"timeout", "status", "nochoices", "nourl"}

ContentFields == {"content", "question", "options", "imageUrl", "usage"}

\* request i gets its response in this step
Answered(i) == pc[i] # "done" /\ pc'[i] = "done"

\* C2: a generate call that fails (validation, missing credential, upstream
\* timeout, error status, malformed payload) is answered success:false with an
\* error message, and leaves nothing in the cache: the failing step changes no
\* entry, and every entry that is written is the result of a call that is
\* answered with success in that very step.
C2_NoCacheOnFailure ==
    [][/\ \A i \in Slots :
            (/\ Answered(i)
             /\ lookup'[i] # "hit"
             /\ \/ InputError(ep'[i], body'[i]) # NoError
                \/ completion'[i].kind \in FailKinds)
                => /\ resp'[i].success = FALSE
                   /\ resp'[i].error # ""
                   /\ DOMAIN resp'[i] \cap ContentFields = {}
       /\ \A i \in Slots :
            (Answered(i) /\ resp'[i].success = FALSE) => cache' = cache
       /\ \A k \in DOMAIN cache' :
            (cache'[k].age = 0 /\ (k \notin DOMAIN cache \/ cache[k] # cache'[k]))
                => \E i \in Slots :
                      /\ Answered(i)
                      /\ resp'[i].success = TRUE
                      /\ k = WriteKey(ep[i], body[i])
                      /\ cache'[k].value = resp'[i]]_vars

\* a call whose upstream call timed out has been answered with a failure, and
\* the cache, which is on, holds nothing under its key
C2_Witness ==
    \E i \in Slots :
        /\ redisOn
        /\ pc[i] = "done"
        /\ completion[i].kind = "timeout"
        /\ resp[i].success = FALSE
        /\ WriteKey(ep[i], body[i]) \notin DOMAIN cache
        /\ LookupKey(ep[i], body[i]) \notin DOMAIN cache

\* what the poll handler made of the answer: its result, or its response
Parsed(i) == IF pc[i] = "setex" THEN result[i] ELSE resp[i]

\* six lines, each starting with its number, a dot and a space
WellFormedSix(ls) == Len(ls) = 6 /\ \A k \in 1..6 : ls[k].kind \in {"num", "long"}

\* C5: of a well-formed six-line poll answer the parser makes the question
\* from line 1 and the options from lines 2, 3 and 4, in order, each without
\* its marker; lines 5 and 6 are in no option.
C5_SixLinePoll ==
    \A i \in Slots :
        (/\ ep[i] = "poll"
         /\ completion[i].kind = "text"
         /\ WellFormedSix(completion[i].lines))
            => /\ pc[i] \in {"setex", "done"}
               /\ Parsed(i).success = TRUE
               /\ Parsed(i).question = completion[i].lines[1].text
               /\ Parsed(i).options = << completion[i].lines[2].text,
                                         completion[i].lines[3].text,
                                         completion[i].lines[4].text >>

C5_Witness ==
    \E i \in Slots :
        /\ pc[i] = "done"
        /\ ep[i] = "poll"
        /\ completion[i].kind = "text"
        /\ WellFormedSix(completion[i].lines)
        /\ completion[i].lines[2].text # completion[i].lines[5].text
        /\ Len(resp[i].options) = 3

\* the lines of an answer that are not blank
InkedLines(ls) == SelectSeq(ls, LAMBDA l : l.kind # "none" \/ Inked(l.text) # {})

WithinTheHour(c) ==
    \A k \in DOMAIN c :
        IF c[k].ttl > 0
        THEN c[k].age >= 0 /\ c[k].age + c[k].ttl = 3600
        ELSE c[k].age >= 3600

\* C10: an entry is written with an expiry of one hour; a lookup of a key
\* whose hour has passed finds nothing, and the call goes on to validate and,
\* for a valid request, to a fresh upstream invocation, whose result is stored
\* as a new entry with an hour to live.
C10_EntryExpires ==
    [][/\ WithinTheHour(cache')
       /\ \A i \in Slots :
            (pc[i] = "setex" /\ Answered(i) /\ resp'[i].success = TRUE)
                => /\ WriteKey(ep[i], body[i]) \in DOMAIN cache'
                   /\ cache'[WriteKey(ep[i], body[i])] =
                         [value |-> resp'[i], ttl |-> 3600, age |-> 0]
       /\ \A i \in Slots :
            (/\ Resolves(i)
             /\ LookupKey(ep[i], body[i]) \in DOMAIN cache
             /\ cache[LookupKey(ep[i], body[i])].age >= 3600)
                => /\ lookup'[i] = "expired"
                   /\ validated'[i]
                   /\ IF InputError(ep[i], body[i]) = NoError
                      THEN pc'[i] = "upstream" /\ up'[i]
                      ELSE pc'[i] = "done" /\ resp'[i].success = FALSE]_vars

\* a call found its key expired, went upstream, and its result is the new entry
C10_Witness ==
    \E i \in Slots :
        /\ lookup[i] = "expired"
        /\ pc[i] = "done"
        /\ up[i]
        /\ resp[i].success = TRUE
        /\ cache[WriteKey(ep[i], body[i])] = [value |-> resp[i], ttl |-> 3600, age |-> 0]

----------------------------------------------------------------------------
(* Properties of concurrent requests. *)

\* the members a complete result of endpoint e has, as it is serialized
CompleteFields(e, v) ==
    /\ v.success = TRUE
    /\ CASE e = "post" -> DOMAIN v \in {{"success", "content"}, {"success", "content", "usage"}}
         [] e = "image" -> DOMAIN v = {"success", "imageUrl"}
         [] e = "poll" -> DOMAIN v = {"success", "content", "question", "options"}

\* what request i's own upstream answer makes, serialized
OwnResult(i) == JsonStringify(Outcome(ep[i], completion[i]).result)

\* key k is written, or written anew, in this step
Written(k) ==
    /\ k \in DOMAIN cache'
    /\ cache'[k].age = 0
    /\ k \notin DOMAIN cache \/ cache[k] # cache'[k]

\* C11: under any interleaving of requests the cache is never corrupted: a
\* step writes at most one key, leaves every other entry as it was (but for
\* its age), and the entry it writes is exactly the complete result one
\* request made for that key from its own upstream answer; a request whose
\* store write resolves, whatever other requests for the same key did in
\* between, answers with its own complete successful result.
C11_NoCorruption ==
    [][/\ \A k \in DOMAIN cache' :
            Written(k) =>
                /\ \E i \in Slots :
                      /\ pc[i] = "setex" /\ pc'[i] = "done"
                      /\ k = WriteKey(ep[i], body[i])
                      /\ cache'[k].value = OwnResult(i)
                      /\ CompleteFields(ep[i], cache'[k].value)
                /\ \A k2 \in DOMAIN cache : k2 # k => cache'[k2] = cache[k2]
       /\ \A k \in DOMAIN cache : k \in DOMAIN cache'
       /\ \A k \in DOMAIN cache :
            ~Written(k) => (cache'[k].value = cache[k].value \/ cache'[k] = Dead)
       /\ \A i \in Slots :
            (pc[i] = "setex" /\ SetexOk(i))
                => /\ resp'[i] = OwnResult(i)
                   /\ CompleteFields(ep[i], resp'[i])]_vars

\* two requests for the same key were in flight together: both missed, both
\* called upstream and got different answers, both answered with success, each
\* with its own result, and the entry is the result of the one that arrived
\* first, whose write came last
C11_Witness ==
    /\ ep[1] = "post" /\ ep[2] = "post"
    /\ body[1] = body[2]
    /\ pc[1] = "done" /\ pc[2] = "done"
    /\ lookup[1] = "miss" /\ lookup[2] = "miss"
    /\ up[1] /\ up[2]
    /\ resp[1].success = TRUE /\ resp[2].success = TRUE
    /\ resp[1] # resp[2]
    /\ resp[1] = OwnResult(1) /\ resp[2] = OwnResult(2)
    /\ WriteKey("post", body[1]) \in DOMAIN cache
    /\ cache[WriteKey("post", body[1])].value = resp[1]

\* C12: once an entry is written its value is immutable for its lifetime: no
\* step replaces the value of a live entry with a different one; the entry
\* only ages, and at the end of its hour expires.
C12_EntryImmutable ==
    [][\A k \in DOMAIN cache :
          cache[k].ttl > 0
              => /\ k \in DOMAIN cache'
                 /\ cache'[k].value = cache[k].value \/ cache'[k] = Dead]_vars

\* C13: cancellation: once the client of a request has closed the connection
\* while the request awaited the upstream model, the request is abandoned: no
\* later step of it writes a cache entry, whatever the upstream answers.
C13_NoWriteAfterCancel ==
    [][\A i \in Slots :
          (closed[i] /\ pc'[i] # pc[i]) => cache' = cache]_vars

----------------------------------------------------------------------------
(* Properties of the responses. *)

\* the two shapes of a response body
WellShaped(r) ==
    /\ "success" \in DOMAIN r
    /\ IF r.success
       THEN DOMAIN r \cap {"error", "details"} = {}
       ELSE /\ "error" \in DOMAIN r
            /\ r.error # ""
            /\ DOMAIN r \cap ContentFields = {}

\* C15: every response carries a success flag and the two shapes never mix:
\* a failure carries a non-empty error and no content field, a success carries
\* no error.  A request's failure stops nothing: the step that answers it with
\* a failure leaves every other request, the cache and the server's
\* configuration as they were.
C15_ResponseShape ==
    [][/\ \A i \in Slots : pc'[i] = "done" => WellShaped(resp'[i])
       /\ \A i \in Slots :
            (Answered(i) /\ "success" \in DOMAIN resp'[i] /\ ~resp'[i].success)
                => /\ \A j \in Slots \ {i} :
                        /\ pc'[j] = pc[j]
                        /\ resp'[j] = resp[j]
                        /\ result'[j] = result[j]
                        /\ completion'[j] = completion[j]
                   /\ cache' = cache
                   /\ redisOn' = redisOn
                   /\ apiKey' = apiKey]_vars

\* without a cache, a request was refused on arrival for its input, and the
\* request that came after it went upstream and was answered with a result
C15_Witness ==
    /\ ~redisOn
    /\ pc[1] = "done" /\ ~up[1] /\ resp[1].success = FALSE /\ resp[1].error # ""
    /\ pc[2] = "done" /\ up[2] /\ resp[2].success = TRUE

----------------------------------------------------------------------------
(* Properties of validation. *)

\* the kinds contentSchema accepts
Kinds == {"post", "thread", "poll"}

\* request i is a content request whose kind is not one of the three
BadKind(p, e, b) ==
    /\ p # "idle"
    /\ e = "post"
    /\ Get(b, "postType") \notin Kinds

\* C16: a content request whose kind is outside {post, thread, poll}, or
\* absent, fails validation: it is answered success false with the validation
\* error naming postType, it never reaches the upstream model, and no step of
\* it writes to the cache.
C16_BadKindRejected ==
    [][\A i \in Slots :
          BadKind(pc'[i], ep'[i], body'[i])
              => /\ ~up'[i]
                 /\ pc'[i] \in {"get", "done"}
                 /\ pc'[i] = "done"
                      => /\ resp'[i].success = FALSE
                         /\ resp'[i].error = "Invalid input"
                         /\ \E k \in 1..Len(resp'[i].details) :
                               resp'[i].details[k].path = "postType"
                 /\ pc'[i] # pc[i] => cache' = cache]_vars

\* with the cache on, a content request of kind "story" and one with no kind
\* have both been looked up, missed and been refused
C16_Witness ==
    /\ redisOn
    /\ BadKind(pc[1], ep[1], body[1]) /\ BadKind(pc[2], ep[2], body[2])
    /\ Get(body[1], "postType") = "story"
    /\ Get(body[2], "postType") = Undefined
    /\ pc[1] = "done" /\ pc[2] = "done"
    /\ lookup[1] = "miss" /\ lookup[2] = "miss"
    /\ validated[1] /\ validated[2]
    /\ resp[1].success = FALSE /\ resp[2].success = FALSE

\* the optional fields that have a default
Optionals == {"audience", "style", "guidelines"}

\* C17: defaults are applied and never left absent: the prompt sent upstream
\* for a content or poll request embeds, for each of audience, style and
\* guidelines that the request leaves out, the field's default, and never an
\* undefined value.
C17_DefaultsInPrompt ==
    \A i \in Slots :
        (up[i] /\ ep[i] \in {"post", "poll"})
            => \A f \in Optionals :
                  Get(body[i], f) = Undefined
                      => /\ prompt[i][f] = Defaults[f]
                         /\ prompt[i][f] # Undefined

----------------------------------------------------------------------------
(* Properties of the server without a cache, and of a failing cache. *)

\* what a request (e, b) whose upstream call came back with r is answered
\* when nothing is served from the cache: the failure of its input, the
\* failure of its upstream call, or the result made of r
Uncached(e, b, r) ==
    IF InputError(e, b) # NoError
    THEN ErrorHandler(InputError(e, b))
    ELSE IF Outcome(e, r).err # NoError
    THEN ErrorHandler(Outcome(e, r).err)
    ELSE JsonStringify(Outcome(e, r).result)

\* C18: with no cache backend configured the server works as the cached
\* server does on a miss: on arrival the request is validated; a valid request
\* makes its own upstream call; the response is the same function of the
\* request and the upstream answer as on the miss path of the cached server
\* (whose store answers); nothing is stored and no request fails for the lack
\* of a cache.
C18_NoCacheIsMissPath ==
    [][/\ \A i \in Slots :
            (Answered(i) /\ lookup'[i] # "hit" /\ ~(pc[i] = "setex" /\ SetexError(i)))
                => resp'[i] = Uncached(ep'[i], body'[i], completion'[i])
       /\ ~redisOn'
            => /\ cache' = <<>>
               /\ \A i \in Slots :
                     pc'[i] # "idle"
                         => /\ lookup'[i] = "off"
                            /\ validated'[i]
                            /\ pc'[i] \in {"upstream", "done"}
                            /\ up'[i] = (InputError(ep'[i], body'[i]) = NoError)
                            /\ (pc'[i] = "done" /\ up'[i]) => completion'[i] # NoReply
                            /\ (pc'[i] = "done" /\ ~resp'[i].success)
                                  => \/ InputError(ep'[i], body'[i]) # NoError
                                     \/ Outcome(ep'[i], completion'[i]).err # NoError]_vars

\* without a cache, two requests with the same body each made their own
\* upstream call and each got the result of its own answer
C18_Witness ==
    /\ ~redisOn
    /\ cache = <<>>
    /\ ep[1] = ep[2] /\ body[1] = body[2]
    /\ pc[1] = "done" /\ pc[2] = "done"
    /\ up[1] /\ up[2]
    /\ completion[1] # completion[2]
    /\ resp[1].success = TRUE /\ resp[2].success = TRUE
    /\ resp[1] = Uncached(ep[1], body[1], completion[1])
    /\ resp[2] = Uncached(ep[2], body[2], completion[2])

\* C19: cache entries are isolated per endpoint: what a hit serves at an
\* endpoint is the live entry under the key that endpoint itself writes for
\* the body, so a value the same endpoint stored, with the members of that
\* endpoint's results; never a result another endpoint made for a body with
\* the same serialization.
C19_HitFromOwnEndpoint ==
    [][\A i \in Slots :
          (Answered(i) /\ lookup'[i] = "hit")
              => /\ RedisHas(WriteKey(ep[i], body[i]))
                 /\ resp'[i] = cache[WriteKey(ep[i], body[i])].value
                 /\ CompleteFields(ep[i], resp'[i])]_vars

\* C20: the cache is never a correctness dependency: a store error on the
\* lookup is treated as a miss (the request goes on to validation and, if
\* valid, upstream), and whatever the store does with the write that follows
\* a successful upstream call, the request is answered with its result,
\* success true.
C20_StoreFailureTolerated ==
    [][\A i \in Slots :
          /\ (pc[i] = "get" /\ CacheGetError(i))
                => /\ lookup'[i] = "miss"
                   /\ validated'[i]
                   /\ InputError(ep[i], body[i]) = NoError => pc'[i] = "upstream"
          /\ (pc[i] = "setex" /\ Answered(i))
                => /\ resp'[i].success = TRUE
                   /\ resp'[i] = JsonStringify(result[i])]_vars

----------------------------------------------------------------------------
(* Properties of the Polls component. *)

\* call k returns in this step
Returns(k) == k <= Len(calls) /\ calls' = Without(calls, k)

\* C21: in the Polls component, whatever the clicks on Generate, Regenerate
\* and Clear and however the poll and image requests end: at most one
\* generatePoll is in flight; isLoading is true exactly while one is, and is
\* false again once it has ended, in success or in failure; and a call whose
\* poll request succeeded ends, whatever the image request did, with the poll's
\* question and options displayed.
C21_OneGenerationAtATime ==
    [][/\ Len(calls) <= 1 /\ Len(calls') <= 1
       /\ isLoading = (calls # <<>>)
       /\ isLoading' = (calls' # <<>>)
       /\ \A k \in 1..Len(calls) :
            Returns(k) => ~isLoading'
       /\ \A k \in 1..Len(calls) :
            (Returns(k) /\ calls[k].at \in {"imageFetch", "imageJson"})
                => /\ generatedPoll'.shown
                   /\ generatedPoll'.question = calls[k].data.question
                   /\ generatedPoll'.options = calls[k].data.options]_vars

\* after a generation that failed, a poll was generated whose image request
\* failed, and it is displayed, without an image, with nothing in flight
C21_Witness ==
    /\ alerted = "Failed to generate poll. Please try again."
    /\ generatedPoll.shown
    /\ generatedPoll.question = "q2"
    /\ generatedPoll.imageUrl = Undefined
    /\ ~isLoading
    /\ calls = <<>>

====
